---------------------------- MODULE Spec2Model ----------------------------
(***************************************************************************)
(* Engagement aggregation of the CMS: comment votes (CommentService.vote), *)
(* post ratings (PostService.rate_post) and view tracking                  *)
(* (PostService.increment_views), as sequential request handlers and as    *)
(* interleaved requests, each in its own database session.                 *)
(*                                                                         *)
(* Tables are sets of rows; a row carries its primary key `id`, assigned   *)
(* as max(id)+1 on insert (INTEGER PRIMARY KEY).  None is modelled as 0:   *)
(* the code tests `if user_id`, for which None and 0 are the same.         *)
(* Post.rating is a float in the code; the model keeps it as an exact      *)
(* fraction [num, den] in lowest terms.                                    *)
(*                                                                         *)
(* Content management: slug assignment of posts and categories             *)
(* (PostService.create / update, CategoryService.create / update), the     *)
(* category hierarchy and its tree (CategoryService.get_tree) and the      *)
(* post-category association.  Titles, names and slugs are sequences of    *)
(* one-character strings.  The engagement specifications run on one stored *)
(* post and comment; the content specifications start from empty tables.   *)
(*                                                                         *)
(* Comment threads and moderation (create_comment, submit_comment,         *)
(* delete_comment, the admin panel, CommentService.get_by_post) on two     *)
(* stored posts, and authentication by token (app/api/deps.py, the cookie  *)
(* of the web pages) with users that are banned and unbanned.              *)
(***************************************************************************)
EXTENDS Integers, FiniteSets, Sequences, TLC

\* ------------------------------------------------------------- bounds ---
MaxUser == 2
MaxIp == 2
MaxRowId == 3
NumReqs == 2

\* ---------------------------------------------------------- constants ---
MinRating == 1
MaxRating == 5

NoUser == 0
NoRow == 0
Users == 1..MaxUser
Callers == 0..MaxUser
Ips == 1..MaxIp
Comments == {1}
Posts == {1}
VoteValues == {-1, 0, 1}
RatingValues == MinRating..MaxRating
Reqs == 1..NumReqs
\* The posts that take comments.
Articles == {1, 2}

VARIABLES
    comment_votes,   \* table comment_votes: rows [id, comment_id, user_id, ip_address, vote]
    likes_count,     \* Comment.likes_count, per comment
    dislikes_count,  \* Comment.dislikes_count, per comment
    post_ratings,    \* table post_ratings: rows [id, post_id, user_id, ip_address, rating]
    rating,          \* Post.rating, per post, as a fraction [num, den]
    votes_count,     \* Post.votes_count, per post
    post_views,      \* table post_views: rows [id, post_id, user_id, ip_address]
    views_count,     \* Post.views_count, per post
    sole,            \* history: the only voter so far (or Nobody, Many), the last vote, 1 or 2+ calls
    once,            \* history: the identities that rated once each, and the sum of their ratings
    req,             \* the requests in flight, each with its own session
    posts,           \* table posts: rows [id, title, slug]
    post_categories, \* table post_categories: rows [post_id, category_id]
    categories,      \* table categories: rows [id, name, slug, parent_id, is_active,
                     \*                          position, posts_count]
    tree,            \* the response of the get_tree request just served, else <<>>
    creating,        \* the create_post requests in flight, each with its own session
    comments,        \* table comments: rows [id, post_id, parent_id, author_id,
                     \*                        is_approved, is_pinned, created_at]
    comments_count,  \* Post.comments_count, per post that takes comments
    allow_comments,  \* Post.allow_comments, per post that takes comments
    is_banned,       \* User.is_banned, per user
    tokens,          \* the JWTs issued so far: [sub, type]
    response         \* what the request just served returned

vars == <<comment_votes, likes_count, dislikes_count, post_ratings, rating,
          votes_count, post_views, views_count, sole, once, req,
          posts, post_categories, categories, tree, creating,
          comments, comments_count, allow_comments, is_banned, tokens, response>>

voteVars == <<comment_votes, likes_count, dislikes_count>>
rateVars == <<post_ratings, rating, votes_count>>
viewVars == <<post_views, views_count>>
content == <<posts, post_categories, categories, tree, creating>>
community == <<comments, comments_count, allow_comments, is_banned, tokens, response>>

\* ------------------------------------------------------------ helpers ---
RECURSIVE GCD(_, _)
GCD(a, b) == IF b = 0 THEN a ELSE GCD(b, a % b)

Abs(n) == IF n < 0 THEN -n ELSE n

\* A fraction in lowest terms with a positive denominator.
Frac(n, d) ==
    LET g == GCD(Abs(n), Abs(d))
        s == IF d < 0 THEN -1 ELSE 1
    IN  [num |-> (s * n) \div g, den |-> (s * d) \div g]

Zero == [num |-> 0, den |-> 1]

Max(S) == CHOOSE x \in S : \A y \in S : y <= x

\* The primary key the store gives the next inserted row.
NewId(rows) == IF rows = {} THEN 1 ELSE Max({r.id : r \in rows}) + 1

\* Voter identity of the glossary: the user id when authenticated, else the IP.
Identity(uid, ip) == IF uid # NoUser THEN <<"user", uid>> ELSE <<"ip", ip>>

RowIdentity(r) == Identity(r.user_id, r.ip_address)

Nobody == <<"nobody", 0>>
Many == <<"many", 0>>

\* A create_post request that has not arrived.
IdleCreate == [pc |-> "idle", title |-> <<>>, slug |-> <<>>, attempts |-> 0]

\* A request that has not arrived: nothing loaded, nothing looked up, nothing written.
IdleReq == [pc |-> "idle", op |-> "none", target |-> 0, user_id |-> 0, ip |-> 0,
            value |-> 0, snap |-> <<>>, existing |-> {}, writes |-> <<>>]

\* No request served yet.
NoResponse == [kind |-> "none"]

Init ==
    /\ comment_votes = {}
    /\ likes_count = [c \in Comments |-> 0]
    /\ dislikes_count = [c \in Comments |-> 0]
    /\ post_ratings = {}
    /\ rating = [p \in Posts |-> Zero]
    /\ votes_count = [p \in Posts |-> 0]
    /\ post_views = {}
    /\ views_count = [p \in Posts |-> 0]
    /\ sole = [who |-> Nobody, last |-> 0, calls |-> 0]
    /\ once = [ids |-> {}, sum |-> 0]
    /\ req = [r \in Reqs |-> IdleReq]
    /\ posts = {}
    /\ post_categories = {}
    /\ categories = {}
    /\ tree = <<>>
    /\ creating = [r \in Reqs |-> IdleCreate]
    /\ comments = {}
    /\ comments_count = [p \in Articles |-> 0]
    /\ allow_comments = [p \in Articles |-> TRUE]
    /\ is_banned = [u \in Users |-> FALSE]
    /\ tokens = {}
    /\ response = NoResponse

\* ------------------------------------------------- CommentService.vote ---
\* The rows the existing-vote query selects.
ExistingVotes(rows, c, uid, ip) ==
    {r \in rows : /\ r.comment_id = c
                  /\ \/ (uid # NoUser /\ r.user_id = uid)
                     \/ r.ip_address = ip}

\* The row operation with removal turned into an update to vote = 0.
VoteRowOpKeepRow(found, vote) ==
    IF found THEN "update" ELSE IF vote # 0 THEN "insert" ELSE "none"

\* What the branches do to the vote row: "delete", "update", "insert" or "none".
VoteRowOp(found, vote) ==
    IF found
    THEN IF vote = 0 THEN "delete" ELSE "update"
    ELSE IF vote # 0 THEN "insert" ELSE "none"

\* The counters with a removed vote always taken off likes_count.
VoteCountersRemoveLike(found, old_vote, vote, likes, dislikes) ==
    IF found
    THEN IF vote = 0
         THEN <<likes - 1, dislikes>>
         ELSE IF old_vote # vote
              THEN IF vote = 1
                   THEN <<likes + 1, dislikes - 1>>
                   ELSE <<likes - 1, dislikes + 1>>
              ELSE <<likes, dislikes>>
    ELSE IF vote # 0
         THEN IF vote = 1
              THEN <<likes + 1, dislikes>>
              ELSE <<likes, dislikes + 1>>
         ELSE <<likes, dislikes>>

\* The counters with the same-sign test of the update branch left out.
VoteCountersRecount(found, old_vote, vote, likes, dislikes) ==
    IF found
    THEN IF vote = 0
         THEN IF old_vote = 1
              THEN <<likes - 1, dislikes>>
              ELSE <<likes, dislikes - 1>>
         ELSE IF vote = 1
              THEN <<likes + 1, dislikes - 1>>
              ELSE <<likes - 1, dislikes + 1>>
    ELSE IF vote # 0
         THEN IF vote = 1
              THEN <<likes + 1, dislikes>>
              ELSE <<likes, dislikes + 1>>
         ELSE <<likes, dislikes>>

\* What the branches do to <<likes_count, dislikes_count>> of the loaded comment.
VoteCounters(found, old_vote, vote, likes, dislikes) ==
    IF found
    THEN IF vote = 0
         THEN IF old_vote = 1
              THEN <<likes - 1, dislikes>>
              ELSE <<likes, dislikes - 1>>
         ELSE IF old_vote # vote
              THEN IF vote = 1
                   THEN <<likes + 1, dislikes - 1>>
                   ELSE <<likes - 1, dislikes + 1>>
              ELSE <<likes, dislikes>>
    ELSE IF vote # 0
         THEN IF vote = 1
              THEN <<likes + 1, dislikes>>
              ELSE <<likes, dislikes + 1>>
         ELSE <<likes, dislikes>>

NewVoteRow(rows, c, uid, ip, vote) ==
    [id |-> NewId(rows), comment_id |-> c, user_id |-> uid, ip_address |-> ip,
     vote |-> vote]

\* The table after the unit of work of one vote is written.
ApplyVoteRow(rows, op, id, c, uid, ip, vote) ==
    CASE op = "delete" -> {r \in rows : r.id # id}
      [] op = "update" -> {IF r.id = id THEN [r EXCEPT !.vote = vote] ELSE r : r \in rows}
      [] op = "insert" -> rows \cup {NewVoteRow(rows, c, uid, ip, vote)}
      [] OTHER -> rows

SoleAfter(uid, ip, v) ==
    IF sole.who = Nobody \/ sole.who = Identity(uid, ip)
    THEN [who |-> Identity(uid, ip), last |-> v,
          calls |-> IF sole.calls = 0 THEN 1 ELSE 2]
    ELSE [who |-> Many, last |-> 0, calls |-> 0]

\* CommentService.vote on the loaded comment c, flushed: the table, the counters of c
\* and whether the call returned ("ok") or raised ("error", nothing written).
VoteEffect(rows, likes, dislikes, c, uid, ip, v) ==
    LET m == ExistingVotes(rows, c, uid, ip)
        found == m # {}
        ex == IF found THEN CHOOSE r \in m : TRUE ELSE [id |-> NoRow, vote |-> 0]
        cnt == VoteCounters(found, ex.vote, v, likes, dislikes)
    IN  IF Cardinality(m) > 1
        THEN \* scalar_one_or_none raises MultipleResultsFound
             [rows |-> rows, likes |-> likes, dislikes |-> dislikes, result |-> "error"]
        ELSE [rows |-> ApplyVoteRow(rows, VoteRowOp(found, v), ex.id, c, uid, ip, v),
              likes |-> cnt[1], dislikes |-> cnt[2], result |-> "ok"]

\* One vote_comment request from load to commit, with no other request in between.
Vote(c, uid, ip, v) ==
    LET e == VoteEffect(comment_votes, likes_count[c], dislikes_count[c], c, uid, ip, v)
    IN  /\ Cardinality(e.rows) > Cardinality(comment_votes)
            => NewId(comment_votes) <= MaxRowId
        /\ comment_votes' = e.rows
        /\ likes_count' = [likes_count EXCEPT ![c] = e.likes]
        /\ dislikes_count' = [dislikes_count EXCEPT ![c] = e.dislikes]
        /\ sole' = SoleAfter(uid, ip, v)
        /\ UNCHANGED <<rateVars, viewVars, once, req, content, community>>

NextVote ==
    \E c \in Comments, uid \in Callers, ip \in Ips, v \in VoteValues :
        Vote(c, uid, ip, v)

SpecVote == Init /\ [][NextVote]_vars

\* ------------------------------------------------ PostService.rate_post ---
\* The query, were a signed-in caller also matched to any anonymous row.
ExistingRatingsOrAnonymous(rows, p, uid, ip) ==
    {r \in rows : /\ r.post_id = p
                  /\ \/ (uid # NoUser /\ (r.user_id = uid \/ r.user_id = NoUser))
                     \/ r.ip_address = ip}

\* The rows the already-rated query selects.
ExistingRatings(rows, p, uid, ip) ==
    {r \in rows : /\ r.post_id = p
                  /\ \/ (uid # NoUser /\ r.user_id = uid)
                     \/ r.ip_address = ip}

\* The aggregates with the old rating left in the sum on a re-rating.
RateResultKeepOld(found, old_rating, r, rt, n) ==
    IF found
    THEN IF n = 0
         THEN [rating |-> rt, votes_count |-> n, error |-> TRUE]
         ELSE [rating |-> Frac(rt.num * n + r * rt.den, rt.den * n),
               votes_count |-> n, error |-> FALSE]
    ELSE [rating |-> Frac(rt.num * n + r * rt.den, rt.den * (n + 1)),
          votes_count |-> n + 1, error |-> FALSE]

\* post.rating and post.votes_count after the branch taken; error is TRUE when the
\* division raises ZeroDivisionError.
RateResult(found, old_rating, r, rt, n) ==
    IF found
    THEN IF n = 0
         THEN [rating |-> rt, votes_count |-> n, error |-> TRUE]
         ELSE [rating |-> Frac(rt.num * n + (r - old_rating) * rt.den, rt.den * n),
               votes_count |-> n, error |-> FALSE]
    ELSE [rating |-> Frac(rt.num * n + r * rt.den, rt.den * (n + 1)),
          votes_count |-> n + 1, error |-> FALSE]

NewRatingRow(rows, p, uid, ip, r) ==
    [id |-> NewId(rows), post_id |-> p, user_id |-> uid, ip_address |-> ip,
     rating |-> r]

\* The table after the unit of work of one rating is written.
ApplyRatingRow(rows, found, id, p, uid, ip, r) ==
    IF found
    THEN {IF x.id = id THEN [x EXCEPT !.rating = r] ELSE x : x \in rows}
    ELSE rows \cup {NewRatingRow(rows, p, uid, ip, r)}

\* PostService.rate_post on the loaded post p, flushed: the table, the aggregates
\* of p and whether the call returned ("ok") or raised ("error", nothing written).
RateEffect(rows, rt, n, p, uid, ip, r) ==
    LET m == ExistingRatings(rows, p, uid, ip)
        found == m # {}
        ex == IF found THEN CHOOSE x \in m : TRUE ELSE [id |-> NoRow, rating |-> 0]
        res == RateResult(found, ex.rating, r, rt, n)
    IN  IF Cardinality(m) > 1 \/ res.error
        THEN \* MultipleResultsFound or ZeroDivisionError
             [rows |-> rows, rating |-> rt, votes_count |-> n, result |-> "error"]
        ELSE [rows |-> ApplyRatingRow(rows, found, ex.id, p, uid, ip, r),
              rating |-> res.rating, votes_count |-> res.votes_count, result |-> "ok"]

\* One rate_post request from load to commit, with no other request in between.
RateRequest(p, uid, ip, r) ==
    LET e == RateEffect(post_ratings, rating[p], votes_count[p], p, uid, ip, r)
    IN  /\ post_ratings' = e.rows
        /\ rating' = [rating EXCEPT ![p] = e.rating]
        /\ votes_count' = [votes_count EXCEPT ![p] = e.votes_count]
        /\ UNCHANGED <<voteVars, viewVars, sole, req, content, community>>

RatePost(p, uid, ip, r) ==
    /\ RateRequest(p, uid, ip, r)
    /\ UNCHANGED once

NextRate ==
    \E p \in Posts, uid \in Callers, ip \in Ips, r \in RatingValues :
        RatePost(p, uid, ip, r)

SpecRate == Init /\ [][NextRate]_vars

\* The same request, made by a voter identity that has not rated before.
FirstRating(p, uid, ip, r) ==
    /\ Identity(uid, ip) \notin once.ids
    /\ RateRequest(p, uid, ip, r)
    /\ once' = [ids |-> once.ids \cup {Identity(uid, ip)}, sum |-> once.sum + r]

NextRateOnce ==
    \E p \in Posts, uid \in Callers, ip \in Ips, r \in RatingValues :
        FirstRating(p, uid, ip, r)

SpecRateOnce == Init /\ [][NextRateOnce]_vars

\* ------------------------------------------------ interleaved requests ---
\* Every request runs in a session of its own.  It loads its comment or post, looks
\* up the existing row, flushes its unit of work and is committed when the handler
\* returns; the ORM writes the attributes it changed as absolute values.  Reads see
\* committed data only, and a flush waits while another session holds unflushed
\* writes of its own.
committed == <<comment_votes, likes_count, dislikes_count, post_ratings, rating,
               votes_count, post_views, views_count>>

history == <<sole, once>>

\* A request that is over keeps its operation and how it ended ("done", "failed"
\* before it flushed, "rolledback" after); its session is closed.
Ended(q, pc) == [IdleReq EXCEPT !.pc = pc, !.op = q.op]

NextSession(r) == \A q \in Reqs : q < r => req[q].pc # "idle"

Arrive(r, op, t, uid, ip, v, snap, pc) ==
    /\ req[r].pc = "idle"
    /\ NextSession(r)
    /\ req' = [req EXCEPT ![r] = [pc |-> pc, op |-> op, target |-> t, user_id |-> uid,
                                  ip |-> ip, value |-> v, snap |-> snap,
                                  existing |-> {}, writes |-> <<>>]]
    /\ UNCHANGED <<committed, history, content, community>>

\* vote_comment: service.get_by_id(comment_id) loads the comment and its counters.
LoadComment(r, c, uid, ip, v) ==
    Arrive(r, "vote", c, uid, ip, v, <<likes_count[c], dislikes_count[c]>>, "loaded")

\* rate_post: service.get_by_id(post_id) loads the post and its aggregates.
LoadPostToRate(r, p, uid, ip, v) ==
    Arrive(r, "rate", p, uid, ip, v, <<rating[p], votes_count[p]>>, "loaded")

\* get_post: service.get_by_id(post_id) loads the post; there is no lookup to do.
LoadPostToView(r, p, uid, ip) ==
    Arrive(r, "view", p, uid, ip, 0, <<views_count[p]>>, "found")

\* The existing-row query of vote and rate_post, on committed data.
Lookup(r) ==
    LET q == req[r]
        m == IF q.op = "vote"
             THEN ExistingVotes(comment_votes, q.target, q.user_id, q.ip)
             ELSE ExistingRatings(post_ratings, q.target, q.user_id, q.ip)
    IN  /\ q.pc = "loaded"
        /\ req' = [req EXCEPT ![r] = IF Cardinality(m) > 1
                                      THEN \* scalar_one_or_none raises
                                           Ended(q, "failed")
                                      ELSE [q EXCEPT !.pc = "found", !.existing = m]]
        /\ UNCHANGED <<committed, history, content, community>>

Existing(q) == IF q.existing # {} THEN CHOOSE x \in q.existing : TRUE
               ELSE [id |-> NoRow, vote |-> 0, rating |-> 0]

\* The unit of work of a request: the row operation and the new values of the
\* attributes of the loaded comment or post, computed from what the session loaded.
UnitOfWork(q) ==
    LET found == q.existing # {}
        ex == Existing(q)
    IN  CASE q.op = "vote" ->
                 [row |-> IF found /\ q.value # 0 /\ ex.vote = q.value THEN "none"
                          ELSE VoteRowOp(found, q.value),
                  cols |-> VoteCounters(found, ex.vote, q.value, q.snap[1], q.snap[2]),
                  error |-> FALSE]
          [] q.op = "rate" ->
                 LET res == RateResult(found, ex.rating, q.value, q.snap[1], q.snap[2])
                 IN  [row |-> IF ~found THEN "insert"
                              ELSE IF ex.rating = q.value THEN "none" ELSE "update",
                      cols |-> <<res.rating, res.votes_count>>,
                      error |-> res.error]
          [] OTHER ->
                 [row |-> "insert", cols |-> <<q.snap[1] + 1>>, error |-> FALSE]

TableOf(op) ==
    CASE op = "vote" -> comment_votes
      [] op = "rate" -> post_ratings
      [] OTHER -> post_views

\* An UPDATE or DELETE by primary key of a row that is gone matches no row.
Stale(q, u) ==
    /\ u.row \in {"update", "delete"}
    /\ \A x \in TableOf(q.op) : x.id # Existing(q).id

WriteLockFree(r) == \A q \in Reqs : q # r => req[q].pc # "flushed"

\* flush(): the INSERT, UPDATE or DELETE of the row and the UPDATE of the counters.
Flush(r) ==
    LET q == req[r]
        u == UnitOfWork(q)
    IN  /\ q.pc = "found"
        /\ WriteLockFree(r)
        /\ req' = [req EXCEPT ![r] = IF u.error \/ Stale(q, u)
                                      THEN Ended(q, "failed")
                                      ELSE [q EXCEPT !.pc = "flushed",
                                                     !.writes = [row |-> u.row,
                                                                 cols |-> u.cols]]]
        /\ UNCHANGED <<committed, history, content, community>>

NewViewRow(rows, p, uid, ip) ==
    [id |-> NewId(rows), post_id |-> p, user_id |-> uid, ip_address |-> ip]

\* An attribute is written when the session changed it, else the stored value stays.
Written(q, i, stored) == IF q.writes.cols[i] # q.snap[i] THEN q.writes.cols[i] ELSE stored

\* The committed data with the flushed unit of work of a request applied.
Applied(q) ==
    LET t == q.target
        ex == Existing(q)
    IN  CASE q.op = "vote" ->
                 <<ApplyVoteRow(comment_votes, q.writes.row, ex.id, t, q.user_id, q.ip,
                                q.value),
                   [likes_count EXCEPT ![t] = Written(q, 1, @)],
                   [dislikes_count EXCEPT ![t] = Written(q, 2, @)],
                   post_ratings, rating, votes_count, post_views, views_count>>
          [] q.op = "rate" ->
                 <<comment_votes, likes_count, dislikes_count,
                   IF q.writes.row = "none" THEN post_ratings
                   ELSE ApplyRatingRow(post_ratings, q.writes.row = "update", ex.id, t,
                                       q.user_id, q.ip, q.value),
                   [rating EXCEPT ![t] = Written(q, 1, @)],
                   [votes_count EXCEPT ![t] = Written(q, 2, @)],
                   post_views, views_count>>
          [] OTHER ->
                 <<comment_votes, likes_count, dislikes_count, post_ratings, rating,
                   votes_count,
                   post_views \cup {NewViewRow(post_views, t, q.user_id, q.ip)},
                   [views_count EXCEPT ![t] = Written(q, 1, @)]>>

\* The handler returned: the session commits everything it flushed.
Commit(r) ==
    /\ req[r].pc = "flushed"
    /\ comment_votes' = Applied(req[r])[1]
    /\ likes_count' = Applied(req[r])[2]
    /\ dislikes_count' = Applied(req[r])[3]
    /\ post_ratings' = Applied(req[r])[4]
    /\ rating' = Applied(req[r])[5]
    /\ votes_count' = Applied(req[r])[6]
    /\ post_views' = Applied(req[r])[7]
    /\ views_count' = Applied(req[r])[8]
    /\ req' = [req EXCEPT ![r] = Ended(req[r], "done")]
    /\ UNCHANGED <<history, content, community>>

\* A step of the request raised: the session rolls back everything it flushed.
Rollback(r) ==
    /\ req[r].pc \in {"loaded", "found", "flushed"}
    /\ req' = [req EXCEPT ![r] = Ended(req[r], IF req[r].pc = "flushed" THEN "rolledback"
                                                ELSE "failed")]
    /\ UNCHANGED <<committed, history, content, community>>

\* The ratings the interleaved requests draw from: the lowest and the highest.
SomeRatings == {MinRating, MaxRating}

NextConc ==
    \/ \E r \in Reqs, c \in Comments, uid \in Callers, ip \in Ips, v \in VoteValues :
           LoadComment(r, c, uid, ip, v)
    \/ \E r \in Reqs, p \in Posts, uid \in Callers, ip \in Ips, v \in SomeRatings :
           LoadPostToRate(r, p, uid, ip, v)
    \/ \E r \in Reqs, p \in Posts, uid \in Callers, ip \in Ips :
           LoadPostToView(r, p, uid, ip)
    \/ \E r \in Reqs : Lookup(r) \/ Flush(r) \/ Commit(r) \/ Rollback(r)

SpecConc == Init /\ [][NextConc]_vars

\* The same requests, one at a time: a request arrives when no other is in flight.
Quiet == \A q \in Reqs : req[q].pc \in {"idle", "done", "failed", "rolledback"}

NextTxn ==
    \/ /\ Quiet
       /\ \/ \E r \in Reqs, c \in Comments, uid \in Callers, ip \in Ips,
                v \in VoteValues : LoadComment(r, c, uid, ip, v)
          \/ \E r \in Reqs, p \in Posts, uid \in Callers, ip \in Ips,
                v \in SomeRatings : LoadPostToRate(r, p, uid, ip, v)
          \/ \E r \in Reqs, p \in Posts, uid \in Callers, ip \in Ips :
                LoadPostToView(r, p, uid, ip)
    \/ \E r \in Reqs : Lookup(r) \/ Flush(r) \/ Commit(r) \/ Rollback(r)

SpecTxn == Init /\ [][NextTxn]_vars

\* ------------------------------------------------------ slug assignment ---
\* The titles and names the requests draw from: "News!" and "!news" normalise to
\* the same slug, "news 1" normalises to its first suffixed candidate, "!!!!!" is
\* punctuation only.  All pass min_length of PostCreate.title and CategoryCreate.name.
Titles == {<<"N", "e", "w", "s", "!">>, <<"!", "n", "e", "w", "s">>,
           <<"n", "e", "w", "s", " ", "1">>, <<"!", "!", "!", "!", "!">>}

Lower(ch) == IF ch = "N" THEN "n" ELSE ch

\* The characters slugify keeps: lower-case letters and digits.
Alnum == {"n", "e", "w", "s"} \cup {ToString(d) : d \in 0..9}

\* slugify, first half: lower-case, every run of other characters becomes one hyphen.
RECURSIVE Hyphenate(_)
Hyphenate(s) ==
    IF s = <<>> THEN <<>>
    ELSE LET c == Lower(Head(s))
             rest == Hyphenate(Tail(s))
         IN  IF c \in Alnum THEN <<c>> \o rest
             ELSE IF rest # <<>> /\ Head(rest) = "-" THEN rest
             ELSE <<"-">> \o rest

\* slugify, second half: leading and trailing hyphens are stripped.
Strip(s) ==
    LET a == IF s # <<>> /\ Head(s) = "-" THEN Tail(s) ELSE s
    IN  IF a # <<>> /\ a[Len(a)] = "-" THEN SubSeq(a, 1, Len(a) - 1) ELSE a

Slugify(text) == Strip(Hyphenate(text))

\* str(counter) of the f-string.
RECURSIVE Digits(_)
Digits(k) == IF k < 10 THEN <<ToString(k)>>
             ELSE Digits(k \div 10) \o <<ToString(k % 10)>>

\* f"{base_slug}-{counter}"
Suffixed(base_slug, counter) == base_slug \o <<"-">> \o Digits(counter)

\* The while loop of create and update once the base slug is taken: the counter
\* goes up until the suffixed slug is not found.
RECURSIVE FirstFree(_, _, _)
FirstFree(taken, base_slug, counter) ==
    IF Suffixed(base_slug, counter) \notin taken THEN Suffixed(base_slug, counter)
    ELSE FirstFree(taken, base_slug, counter + 1)

\* The loop leaving after its first round.
AssignSlugFirstSuffix(taken, base_slug) ==
    IF base_slug \notin taken THEN base_slug ELSE Suffixed(base_slug, 1)

\* The slug create settles on, `taken` being the slugs get_by_slug finds.
AssignSlug(taken, base_slug) ==
    IF base_slug \notin taken THEN base_slug ELSE FirstFree(taken, base_slug, 1)

SlugsOf(rows) == {r.slug : r \in rows}

\* The update loop with the entity's own row counted as a collision.
UpdatedSlugOwnRowCollides(rows, row, text) == AssignSlug(SlugsOf(rows), Slugify(text))

\* The slug update settles on: the loop also stops on the entity's own row.
UpdatedSlug(rows, row, text) ==
    LET new_slug == Slugify(text)
    IN  IF new_slug = row.slug THEN row.slug
        ELSE AssignSlug(SlugsOf(rows \ {row}), new_slug)

\* The store never checking the unique index on slug.
UniqueViolationUnchecked(taken, slug) == FALSE

\* unique=True on the slug column: the flush of a duplicate raises IntegrityError.
UniqueViolation(taken, slug) == slug \in taken

\* PostService._set_categories: the categories found among category_ids.
SetCategories(p, category_ids) ==
    {[post_id |-> p, category_id |-> c.id] : c \in {x \in categories : x.id \in category_ids}}

PostRow(p) == CHOOSE r \in posts : r.id = p

\* create_post -> PostService.create, one request at a time.
CreatePost(title, category_ids) ==
    LET slug == AssignSlug(SlugsOf(posts), Slugify(title))
        id == NewId(posts)
    IN  /\ id <= MaxRowId
        /\ IF UniqueViolation(SlugsOf(posts), slug)
           THEN UNCHANGED <<posts, post_categories>>
           ELSE /\ posts' = posts \cup {[id |-> id, title |-> title, slug |-> slug]}
                /\ post_categories' = post_categories \cup SetCategories(id, category_ids)
        /\ UNCHANGED <<committed, history, req, categories, tree, creating, community>>

\* update_post -> PostService.update; data.set_title and data.set_categories tell
\* which fields the PATCH carries.
UpdatePost(p, data) ==
    /\ \E r \in posts : r.id = p
    /\ LET row == PostRow(p)
           slug == IF data.set_title THEN UpdatedSlug(posts, row, data.title) ELSE row.slug
           new == [row EXCEPT !.title = IF data.set_title THEN data.title ELSE @,
                              !.slug = slug]
       IN  IF UniqueViolation(SlugsOf(posts \ {row}), slug)
           THEN UNCHANGED <<posts, post_categories>>
           ELSE /\ posts' = (posts \ {row}) \cup {new}
                /\ post_categories' =
                       IF data.set_categories
                       THEN {x \in post_categories : x.post_id # p}
                                \cup SetCategories(p, data.category_ids)
                       ELSE post_categories
    /\ UNCHANGED <<committed, history, req, categories, tree, creating, community>>

\* delete_post -> PostService.delete: the row and its association rows go.
DeletePost(p) ==
    /\ \E r \in posts : r.id = p
    /\ posts' = posts \ {PostRow(p)}
    /\ post_categories' = {x \in post_categories : x.post_id # p}
    /\ UNCHANGED <<committed, history, req, categories, tree, creating, community>>

\* A PATCH that carries a title only.
TitleOnly(title) == [set_title |-> TRUE, title |-> title,
                     set_categories |-> FALSE, category_ids |-> {}]

NextPostSlug ==
    \/ \E t \in Titles : CreatePost(t, {})
    \/ \E p \in 1..MaxRowId, t \in Titles : UpdatePost(p, TitleOnly(t))
    \/ \E p \in 1..MaxRowId : DeletePost(p)

SpecPostSlug == Init /\ [][NextPostSlug]_vars

\* ---------------------------------------------- concurrent create_post ---
\* PostService.create up to its loop: slugify and the collision scan, on committed data.
ScanSlug(r, title) ==
    /\ creating[r].pc # "scanned"
    /\ Cardinality(posts) + Cardinality({q \in Reqs : creating[q].pc = "scanned"})
           < MaxRowId
    /\ creating' = [creating EXCEPT ![r] =
                       [pc |-> "scanned", title |-> title,
                        slug |-> AssignSlug(SlugsOf(posts), Slugify(title)),
                        attempts |-> 1]]
    /\ UNCHANGED <<committed, history, req, posts, post_categories, categories, tree,
                   community>>

\* A create_post request that is over keeps how it ended and how often it scanned.
EndedCreate(q, pc) == [IdleCreate EXCEPT !.pc = pc, !.attempts = q.attempts]

\* db.add(post), flush() and the commit when the handler returns; a duplicate slug
\* raises out of flush() and the request fails.
InsertPost(r) ==
    LET q == creating[r]
    IN  /\ q.pc = "scanned"
        /\ IF UniqueViolation(SlugsOf(posts), q.slug)
           THEN /\ creating' = [creating EXCEPT ![r] = EndedCreate(q, "failed")]
                /\ UNCHANGED posts
           ELSE /\ creating' = [creating EXCEPT ![r] = EndedCreate(q, "done")]
                /\ posts' = posts \cup {[id |-> NewId(posts), title |-> q.title,
                                         slug |-> q.slug]}
        /\ UNCHANGED <<committed, history, req, post_categories, categories, tree,
                       community>>

\* The titles the concurrent requests draw from: two with the same base slug.
SomeTitles == {<<"N", "e", "w", "s", "!">>, <<"!", "n", "e", "w", "s">>}

NextSlugConc ==
    \/ \E r \in Reqs, t \in SomeTitles : ScanSlug(r, t)
    \/ \E r \in Reqs : InsertPost(r)
    \/ \E p \in 1..MaxRowId : DeletePost(p)

SpecSlugConc == Init /\ [][NextSlugConc]_vars

\* ----------------------------------------------------------- categories ---
NoParent == 0

\* The names the category requests draw from.
Names == {<<"N", "e", "w", "s", "!">>, <<"!", "n", "e", "w", "s">>,
          <<"n", "e", "w", "s", " ", "1">>}

\* Category.position as the requests set it.
Positions == {0, 1}

CategoryIds == {r.id : r \in categories}

CategoryRow(c) == CHOOSE r \in categories : r.id = c

\* unique=True on Category.name and Category.slug, for the rows other than `own`.
CategoryConflict(rows, own, name, slug) ==
    \E r \in rows : r.id # own /\ (r.name = name \/ UniqueViolation({r.slug}, slug))

\* create_category: the parent must exist; CategoryService.create assigns the slug
\* and inserts the row.
CreateCategory(name, parent_id, is_active, position) ==
    LET slug == AssignSlug(SlugsOf(categories), Slugify(name))
        id == NewId(categories)
        ok == /\ parent_id # NoParent => parent_id \in CategoryIds
              /\ ~CategoryConflict(categories, id, name, slug)
    IN  /\ id <= MaxRowId
        /\ categories' = IF ok
                         THEN categories \cup
                                  {[id |-> id, name |-> name, slug |-> slug,
                                    parent_id |-> parent_id, is_active |-> is_active,
                                    position |-> position, posts_count |-> 0]}
                         ELSE categories
        /\ tree' = <<>>
        /\ UNCHANGED <<committed, history, req, posts, post_categories, creating,
                       community>>

\* update_category: "Prevent circular reference".
RejectsParent(c, update_data) ==
    /\ update_data.field = "parent_id"
    /\ update_data.value # NoParent
    /\ update_data.value = c

\* CategoryService.update: the slug follows a new name, then every field of
\* update_data is set on the row.
UpdatedCategory(rows, row, update_data) ==
    CASE update_data.field = "name" ->
             [row EXCEPT !.name = update_data.value,
                         !.slug = UpdatedSlug(rows, row, update_data.value)]
      [] update_data.field = "parent_id" -> [row EXCEPT !.parent_id = update_data.value]
      [] update_data.field = "is_active" -> [row EXCEPT !.is_active = update_data.value]
      [] OTHER -> [row EXCEPT !.position = update_data.value]

\* update_category with a PATCH of one field.
UpdateCategory(c, update_data) ==
    /\ c \in CategoryIds
    /\ LET row == CategoryRow(c)
           new == UpdatedCategory(categories, row, update_data)
       IN  categories' = IF \/ RejectsParent(c, update_data)
                            \/ CategoryConflict(categories, c, new.name, new.slug)
                         THEN categories
                         ELSE (categories \ {row}) \cup {new}
    /\ tree' = <<>>
    /\ UNCHANGED <<committed, history, req, posts, post_categories, creating, community>>

\* delete_category: refused while posts_count > 0; the children of the deleted row
\* lose their parent and its association rows go.
DeleteCategory(c) ==
    /\ c \in CategoryIds
    /\ IF CategoryRow(c).posts_count > 0
       THEN UNCHANGED <<categories, post_categories>>
       ELSE /\ categories' = {IF r.parent_id = c THEN [r EXCEPT !.parent_id = NoParent]
                              ELSE r : r \in categories \ {CategoryRow(c)}}
            /\ post_categories' = {x \in post_categories : x.category_id # c}
    /\ tree' = <<>>
    /\ UNCHANGED <<committed, history, req, posts, creating, community>>

\* The code points of the characters of the names, for the store's binary collation.
Code(ch) ==
    CASE ch = " " -> 32 [] ch = "!" -> 33 [] ch = "1" -> 49 [] ch = "N" -> 78
      [] ch = "e" -> 101 [] ch = "n" -> 110 [] ch = "s" -> 115 [] OTHER -> 119

RECURSIVE NameLess(_, _)
NameLess(a, b) ==
    IF b = <<>> THEN FALSE
    ELSE IF a = <<>> THEN TRUE
    ELSE IF Head(a) # Head(b) THEN Code(Head(a)) < Code(Head(b))
    ELSE NameLess(Tail(a), Tail(b))

\* ORDER BY position, name
Before(a, b) ==
    \/ a.position < b.position
    \/ a.position = b.position /\ NameLess(a.name, b.name)

RECURSIVE Ordered(_)
Ordered(rows) ==
    IF rows = {} THEN <<>>
    ELSE LET first == CHOOSE x \in rows : \A y \in rows \ {x} : Before(x, y)
         IN  <<first>> \o Ordered(rows \ {first})

\* The rows of a query without ORDER BY, in any order the store may return them.
AnyOrder(rows) ==
    {s \in [1..Cardinality(rows) -> rows] : \A i, j \in DOMAIN s : s[i] = s[j] => i = j}

\* The root query of get_tree: parent_id IS NULL, and is_active when active_only.
Roots(rows, active_only) ==
    {r \in rows : r.parent_id = NoParent /\ (active_only => r.is_active)}

\* selectinload(Category.children): the rows whose parent is the root.
Children(rows, root) == {r \in rows : r.parent_id = root.id}

\* get_categories_tree -> CategoryService.get_tree(), active_only by default.
GetCategoriesTree ==
    /\ categories # {}
    /\ LET roots == Ordered(Roots(categories, TRUE))
       IN  \E kids \in [DOMAIN roots -> UNION {AnyOrder(Children(categories, r)) :
                                                  r \in categories}] :
               /\ \A i \in DOMAIN roots :
                      kids[i] \in AnyOrder(Children(categories, roots[i]))
               /\ tree' = <<TRUE, [i \in DOMAIN roots |->
                                      [row |-> roots[i], children |-> kids[i]]]>>
    /\ UNCHANGED <<committed, history, req, posts, post_categories, categories, creating,
                   community>>

\* The one-field PATCHes of update_category.
CategoryUpdates ==
    [field : {"name"}, value : Names]
        \cup [field : {"parent_id"}, value : {NoParent} \cup CategoryIds]
        \cup [field : {"is_active"}, value : BOOLEAN]
        \cup [field : {"position"}, value : Positions]

NextCategory ==
    \/ \E n \in Names, p \in {NoParent} \cup CategoryIds, a \in BOOLEAN, k \in Positions :
           CreateCategory(n, p, a, k)
    \/ \E c \in CategoryIds, d \in CategoryUpdates : UpdateCategory(c, d)
    \/ \E c \in CategoryIds : DeleteCategory(c)
    \/ GetCategoriesTree

SpecCategory == Init /\ [][NextCategory]_vars

\* ------------------------------------------- post-category association ---
\* A PATCH that carries category_ids only.
CategoriesOnly(category_ids) == [set_title |-> FALSE, title |-> <<>>,
                                 set_categories |-> TRUE, category_ids |-> category_ids]

\* The title of the posts that are created to be associated.
OneTitle == <<"N", "e", "w", "s", "!">>

NextAssociation ==
    \/ \E n \in Names : CreateCategory(n, NoParent, TRUE, 0)
    \/ \E c \in 1..MaxRowId : DeleteCategory(c)
    \/ \E ids \in SUBSET (1..MaxRowId) : CreatePost(OneTitle, ids)
    \/ \E p \in 1..MaxRowId, ids \in SUBSET (1..MaxRowId) :
           UpdatePost(p, CategoriesOnly(ids))
    \/ \E p \in 1..MaxRowId : DeletePost(p)

SpecAssociation == Init /\ [][NextAssociation]_vars

\* ------------------------------------------ PostService.increment_views ---
\* increment_views counting a viewer once.
ViewEffectOncePerViewer(rows, views, p, uid, ip) ==
    IF \E r \in rows : r.post_id = p /\ r.user_id = uid /\ r.ip_address = ip
    THEN [rows |-> rows, views |-> views]
    ELSE [rows |-> rows \cup {NewViewRow(rows, p, uid, ip)}, views |-> views + 1]

\* increment_views: views_count += 1 and one PostView row added.
ViewEffect(rows, views, p, uid, ip) ==
    [rows |-> rows \cup {NewViewRow(rows, p, uid, ip)}, views |-> views + 1]

\* get_post, one request at a time: the post is found and the view is tracked.
ViewPost(p, uid, ip) ==
    LET e == ViewEffect(post_views, views_count[p], p, uid, ip)
    IN  /\ NewId(post_views) <= MaxRowId
        /\ post_views' = e.rows
        /\ views_count' = [views_count EXCEPT ![p] = e.views]
        /\ UNCHANGED <<voteVars, rateVars, history, req, content, community>>

NextView == \E p \in Posts, uid \in Callers, ip \in Ips : ViewPost(p, uid, ip)

SpecView == Init /\ [][NextView]_vars

\* ---------------------------------------------------- comment threads ---
\* The callers whose group has can_delete_comments and can_access_admin
\* (the default group Administrator); every other user is in group User.
Staff == {1}

\* datetime.utcnow of an insert, one tick after the newest stored row.
Now(rows) == IF rows = {} THEN 1 ELSE Max({r.created_at : r \in rows}) + 1

CommentIds(rows) == {r.id : r \in rows}
CommentById(rows, c) == CHOOSE r \in rows : r.id = c

\* CommentService.create: is_approved and is_pinned are left to the column defaults.
CommentRow(rows, post_id, parent_id, author_id) ==
    [id |-> NewId(rows), post_id |-> post_id, parent_id |-> parent_id,
     author_id |-> author_id, is_approved |-> TRUE, is_pinned |-> FALSE,
     created_at |-> Now(rows)]

\* The checks of create_comment, in order: the status of the HTTPException, or 0
\* when the request passes them.  A guest (NoUser) sends guest_name and guest_email.
CreateCommentRejects(rows, allow, post_id, parent_id) ==
    IF ~allow[post_id] THEN 400
    ELSE IF parent_id # NoParent
            /\ (parent_id \notin CommentIds(rows)
                \/ CommentById(rows, parent_id).post_id # post_id) THEN 400
    ELSE 0

\* POST /api/v1/comments
CreateComment(post_id, parent_id, author_id) ==
    /\ IF CreateCommentRejects(comments, allow_comments, post_id, parent_id) # 0
       THEN UNCHANGED <<comments, comments_count>>
       ELSE /\ NewId(comments) <= MaxRowId
            /\ comments_count[post_id] < MaxRowId
            /\ comments' = comments \cup
                    {CommentRow(comments, post_id, parent_id, author_id)}
            /\ comments_count' = [comments_count EXCEPT ![post_id] = @ + 1]
    /\ UNCHANGED <<committed, history, req, content, allow_comments, is_banned, tokens,
                   response>>

\* POST /post/{slug}/comment of the web pages, by a logged-in user.  The form's
\* parent_id is any stored comment or none.
SubmitComment(post_id, parent_id, author_id) ==
    /\ NewId(comments) <= MaxRowId
    /\ comments_count[post_id] < MaxRowId
    /\ author_id # NoUser
    /\ parent_id \in CommentIds(comments) \cup {NoParent}
    /\ comments' = comments \cup {CommentRow(comments, post_id, parent_id, author_id)}
    /\ comments_count' = [comments_count EXCEPT ![post_id] = @ + 1]
    /\ UNCHANGED <<committed, history, req, content, allow_comments, is_banned, tokens,
                   response>>

\* db.delete(comment) and the flush: Comment.replies has no delete cascade, so
\* the unit of work sets the parent_id of the replies to NULL, then deletes the row.
\* (CommentVote has no relationship to Comment; the thread specifications hold no
\* comment_votes rows.)
DeleteRow(rows, c) ==
    {IF r.parent_id = c THEN [r EXCEPT !.parent_id = NoParent] ELSE r :
        r \in {x \in rows : x.id # c}}

\* DELETE /api/v1/comments/{comment_id}: 404 for no such comment, 403 for a caller
\* who is neither the author nor allowed to delete comments.
DeleteComment(c, u) ==
    /\ u # NoUser
    /\ IF c \notin CommentIds(comments)
       THEN UNCHANGED <<comments, comments_count>>
       ELSE LET row == CommentById(comments, c) IN
            IF row.author_id # u /\ u \notin Staff
            THEN UNCHANGED <<comments, comments_count>>
            ELSE /\ comments_count' =
                        [comments_count EXCEPT ![row.post_id] = IF @ > 0 THEN @ - 1 ELSE @]
                 /\ comments' = DeleteRow(comments, c)
    /\ UNCHANGED <<committed, history, req, content, allow_comments, is_banned, tokens,
                   response>>

\* POST /admin/comments/{comment_id}/delete
AdminCommentDelete(c) ==
    /\ comments' = IF c \in CommentIds(comments) THEN DeleteRow(comments, c) ELSE comments
    /\ UNCHANGED <<committed, history, req, content, comments_count, allow_comments,
                   is_banned, tokens, response>>

\* PostService.update with only allow_comments set.
SetAllowComments(post_id, allow) ==
    /\ allow_comments' = [allow_comments EXCEPT ![post_id] = allow]
    /\ UNCHANGED <<committed, history, req, content, comments, comments_count,
                   is_banned, tokens, response>>

\* CommentService.approve / pin / unpin, for a stored comment.
Approved(rows, c) ==
    {IF r.id = c THEN [r EXCEPT !.is_approved = TRUE] ELSE r : r \in rows}
Pinned(rows, c) ==
    {IF r.id = c THEN [r EXCEPT !.is_pinned = TRUE] ELSE r : r \in rows}
Unpinned(rows, c) ==
    {IF r.id = c THEN [r EXCEPT !.is_pinned = FALSE] ELSE r : r \in rows}

\* The moderation handlers: 404 for no such comment, else the service call.
Moderate(c, after) ==
    /\ comments' = IF c \in CommentIds(comments) THEN after ELSE comments
    /\ UNCHANGED <<committed, history, req, content, comments_count, allow_comments,
                   is_banned, tokens, response>>

\* POST /api/v1/comments/{comment_id}/approve, /pin and DELETE /pin
ApproveComment(c) == Moderate(c, Approved(comments, c))
PinComment(c) == Moderate(c, Pinned(comments, c))
UnpinComment(c) == Moderate(c, Unpinned(comments, c))

\* The authors of the thread specifications: a guest and a user outside Staff.
Authors == {NoUser, MaxUser}

NextThread ==
    \/ \E p \in Articles, c \in 0..MaxRowId, u \in Authors : CreateComment(p, c, u)
    \/ \E p \in Articles, c \in 0..MaxRowId, u \in Authors : SubmitComment(p, c, u)
    \/ \E c \in 1..MaxRowId, u \in Users : DeleteComment(c, u)
    \/ \E c \in 1..MaxRowId : AdminCommentDelete(c)
    \/ \E p \in Articles, b \in BOOLEAN : SetAllowComments(p, b)

SpecThread == Init /\ [][NextThread]_vars

NextModeration ==
    \/ \E p \in Articles, c \in 0..MaxRowId, u \in Authors : CreateComment(p, c, u)
    \/ \E c \in 1..MaxRowId : ApproveComment(c)
    \/ \E c \in 1..MaxRowId : PinComment(c)
    \/ \E c \in 1..MaxRowId : UnpinComment(c)
    \/ \E c \in 1..MaxRowId : AdminCommentDelete(c)

SpecModeration == Init /\ [][NextModeration]_vars

\* ------------------------------------------------ CommentService.get_by_post ---
\* A WHERE clause that forgets parent_id IS NULL.
MatchingWithReplies(rows, post_id, approved_only) ==
    {r \in rows : r.post_id = post_id /\ (approved_only => r.is_approved)}

\* The WHERE clause of both queries: top-level comments of the post, and
\* is_approved when approved_only.
Matching(rows, post_id, approved_only) ==
    {r \in rows : /\ r.post_id = post_id
                  /\ r.parent_id = NoParent
                  /\ approved_only => r.is_approved}

\* ORDER BY is_pinned DESC, created_at DESC
ListedBefore(a, b) ==
    \/ a.is_pinned /\ ~b.is_pinned
    \/ a.is_pinned = b.is_pinned /\ a.created_at > b.created_at

\* The orders the store may return the rows in: rows that tie come in any order.
RECURSIVE Sorted(_)
Sorted(rows) ==
    IF rows = {} THEN {<<>>}
    ELSE UNION {{<<x>> \o s : s \in Sorted(rows \ {x})} :
                   x \in {y \in rows : \A z \in rows : ~ListedBefore(z, y)}}

\* OFFSET (page - 1) * per_page LIMIT per_page
Paginate(s, page, per_page) ==
    LET offset == (page - 1) * per_page
        last == IF offset + per_page < Len(s) THEN offset + per_page ELSE Len(s)
    IN  SubSeq(s, offset + 1, last)

\* The (comments, total) pairs get_by_post may return.
GetByPost(rows, post_id, page, per_page, approved_only) ==
    LET matching == Matching(rows, post_id, approved_only)
    IN  {[items |-> Paginate(s, page, per_page), total |-> Cardinality(matching)] :
            s \in Sorted(matching)}

\* A call of get_by_post, as get_comments_for_post and post_detail make it.
GetComments(post_id, page, per_page, approved_only) ==
    /\ \E res \in GetByPost(comments, post_id, page, per_page, approved_only) :
           response' = [kind |-> "comments", post_id |-> post_id, page |-> page,
                        per_page |-> per_page, approved_only |-> approved_only,
                        items |-> res.items, total |-> res.total]
    /\ UNCHANGED <<committed, history, req, content, comments, comments_count,
                   allow_comments, is_banned, tokens>>

\* page and per_page are validated ge=1.
Pages == {1, 2}

\* The values of created_at in a stored table.
Times == {1, 2}

\* The stored tables get_by_post is asked about: ids 1..n, created_at in insertion
\* order; on post 1 top-level comments in every moderation state and replies under
\* comment 1, on post 2 plain top-level comments.
Shapes ==
    [post_id : {1}, parent_id : {NoParent}, is_approved : BOOLEAN,
     is_pinned : BOOLEAN, created_at : Times]
    \cup [post_id : {1}, parent_id : {1}, is_approved : {TRUE},
          is_pinned : {FALSE}, created_at : Times]
    \cup [post_id : {2}, parent_id : {NoParent}, is_approved : {TRUE},
          is_pinned : {FALSE}, created_at : Times]

WellFormed(f) ==
    /\ \A i \in DOMAIN f :
           f[i].parent_id # NoParent =>
               /\ i > 1
               /\ f[1].parent_id = NoParent
               /\ f[1].post_id = f[i].post_id
    /\ \A i, j \in DOMAIN f : i < j => f[i].created_at <= f[j].created_at

StoredRow(f, i) ==
    [id |-> i, post_id |-> f[i].post_id, parent_id |-> f[i].parent_id,
     author_id |-> NoUser, is_approved |-> f[i].is_approved,
     is_pinned |-> f[i].is_pinned, created_at |-> f[i].created_at]

ListingTables ==
    UNION {{{StoredRow(f, i) : i \in DOMAIN f} : f \in {g \in [1..n -> Shapes] : WellFormed(g)}} :
              n \in 0..MaxRowId}

InitListing ==
    /\ comment_votes = {}
    /\ likes_count = [c \in Comments |-> 0]
    /\ dislikes_count = [c \in Comments |-> 0]
    /\ post_ratings = {}
    /\ rating = [p \in Posts |-> Zero]
    /\ votes_count = [p \in Posts |-> 0]
    /\ post_views = {}
    /\ views_count = [p \in Posts |-> 0]
    /\ sole = [who |-> Nobody, last |-> 0, calls |-> 0]
    /\ once = [ids |-> {}, sum |-> 0]
    /\ req = [r \in Reqs |-> IdleReq]
    /\ posts = {}
    /\ post_categories = {}
    /\ categories = {}
    /\ tree = <<>>
    /\ creating = [r \in Reqs |-> IdleCreate]
    /\ comments \in ListingTables
    /\ comments_count = [p \in Articles |-> Cardinality({r \in comments : r.post_id = p})]
    /\ allow_comments = [p \in Articles |-> TRUE]
    /\ is_banned = [u \in Users |-> FALSE]
    /\ tokens = {}
    /\ response = NoResponse

NextListing ==
    \E p \in Articles, page \in Pages, per_page \in Pages, approved_only \in BOOLEAN :
        GetComments(p, page, per_page, approved_only)

SpecListing == InitListing /\ [][NextListing]_vars

\* --------------------------------------------- POST /posts/{post_id}/rate ---
\* A body validation that lets every integer through.
ValidRatingAnyInteger(r) == TRUE

\* PostRatingRequest: rating: int = Field(..., ge=1, le=5)
ValidRating(r) == MinRating <= r /\ r <= MaxRating

\* The rate_post endpoint, the only caller of PostService.rate_post: the body is
\* validated before the handler runs ("invalid", 422), then the service call.
RateEndpointEffect(rows, rt, n, p, uid, ip, r) ==
    IF ~ValidRating(r)
    THEN [rows |-> rows, rating |-> rt, votes_count |-> n, result |-> "invalid"]
    ELSE RateEffect(rows, rt, n, p, uid, ip, r)

StatusOf(result) ==
    [kind |-> "status",
     code |-> IF result = "invalid" THEN 422 ELSE IF result = "error" THEN 500 ELSE 200]

RatePostEndpoint(p, uid, ip, r) ==
    LET e == RateEndpointEffect(post_ratings, rating[p], votes_count[p], p, uid, ip, r)
    IN  /\ post_ratings' = e.rows
        /\ rating' = [rating EXCEPT ![p] = e.rating]
        /\ votes_count' = [votes_count EXCEPT ![p] = e.votes_count]
        /\ response' = StatusOf(e.result)
        /\ UNCHANGED <<voteVars, viewVars, history, req, content, comments,
                       comments_count, allow_comments, is_banned, tokens>>

\* The ratings a request body may carry: the ends of the range and the first
\* integer beyond each.
RatingInputs == {MinRating - 1, MinRating, MaxRating, MaxRating + 1}

NextRateAny ==
    \E p \in Posts, uid \in Callers, ip \in Ips, r \in RatingInputs :
        RatePostEndpoint(p, uid, ip, r)

SpecRateAny == Init /\ [][NextRateAny]_vars

\* ----------------------------------------------------- authentication ---
\* A token is its payload: the user it was issued to and its type.  Only issued
\* tokens carry a valid signature; expiry is left out.
TokenTypes == {"access", "refresh"}
Tokens == [sub : Users, type : TokenTypes]

\* User.is_active: True by default, and no handler writes it.
IsActive(u) == TRUE

\* verify_token: the sub of the payload, or NoUser for a token that does not
\* decode or has another type.
VerifyToken(issued, t, type) ==
    IF t \in issued /\ t.type = type THEN t.sub ELSE NoUser

\* get_current_user: the user of the bearer token, or NoUser for 401 and 403.
GetCurrentUser(issued, banned, t) ==
    LET u == VerifyToken(issued, t, "access")
    IN  IF u = NoUser THEN NoUser
        ELSE IF ~IsActive(u) THEN NoUser
        ELSE IF banned[u] THEN NoUser
        ELSE u

\* get_current_user_optional: the user, or NoUser for an anonymous caller.
GetCurrentUserOptional(issued, banned, t) ==
    LET u == VerifyToken(issued, t, "access")
    IN  IF u = NoUser THEN NoUser
        ELSE IF ~IsActive(u) THEN NoUser
        ELSE u

\* get_current_user_from_cookie: whatever get_by_id finds for the sub.
GetCurrentUserFromCookie(issued, banned, t) == VerifyToken(issued, t, "access")

\* refresh_token: the user the new tokens are issued to, or NoUser for 401.
RefreshedUser(issued, banned, t) ==
    LET u == VerifyToken(issued, t, "refresh")
    IN  IF u = NoUser THEN NoUser
        ELSE IF ~IsActive(u) \/ banned[u] THEN NoUser
        ELSE u

IssuedTo(u) == {[sub |-> u, type |-> ty] : ty \in TokenTypes}

Caller(via, u) == [kind |-> "caller", via |-> via, user |-> u]

\* POST /auth/login: UserService.authenticate turns a banned user away.
Login(u) ==
    /\ IF ~IsActive(u) \/ is_banned[u]
       THEN /\ response' = Caller("login", NoUser)
            /\ UNCHANGED tokens
       ELSE /\ tokens' = tokens \cup IssuedTo(u)
            /\ response' = Caller("login", u)
    /\ UNCHANGED <<committed, history, req, content, comments, comments_count,
                   allow_comments, is_banned>>

\* POST /login of the web pages: the cookie holds an access token only.
LoginSubmit(u) ==
    /\ IF ~IsActive(u) \/ is_banned[u]
       THEN /\ response' = Caller("form", NoUser)
            /\ UNCHANGED tokens
       ELSE /\ tokens' = tokens \cup {[sub |-> u, type |-> "access"]}
            /\ response' = Caller("form", u)
    /\ UNCHANGED <<committed, history, req, content, comments, comments_count,
                   allow_comments, is_banned>>

\* POST /auth/refresh
RefreshToken(t) ==
    LET u == RefreshedUser(tokens, is_banned, t)
    IN  /\ tokens' = IF u = NoUser THEN tokens ELSE tokens \cup IssuedTo(u)
        /\ response' = Caller("refresh", u)
        /\ UNCHANGED <<committed, history, req, content, comments, comments_count,
                       allow_comments, is_banned>>

\* A request that answers to the caller its dependency resolved.
Serve(via, u) ==
    /\ response' = Caller(via, u)
    /\ UNCHANGED <<committed, history, req, content, comments, comments_count,
                   allow_comments, is_banned, tokens>>

\* A request behind Depends(get_current_user), such as GET /auth/me.
BearerRequest(t) == Serve("bearer", GetCurrentUser(tokens, is_banned, t))

\* A request behind Depends(get_current_user_optional): vote, rate, comment.
OptionalBearerRequest(t) ==
    Serve("optional", GetCurrentUserOptional(tokens, is_banned, t))

\* A web or admin page, which reads the access_token cookie.
CookieRequest(t) == Serve("cookie", GetCurrentUserFromCookie(tokens, is_banned, t))

\* POST /users/{user_id}/ban: an administrator is never banned.
BanUser(u) ==
    /\ is_banned' = IF u \in Staff THEN is_banned ELSE [is_banned EXCEPT ![u] = TRUE]
    /\ response' = [kind |-> "ban", user |-> u]
    /\ UNCHANGED <<committed, history, req, content, comments, comments_count,
                   allow_comments, tokens>>

\* POST /users/{user_id}/unban
UnbanUser(u) ==
    /\ is_banned' = [is_banned EXCEPT ![u] = FALSE]
    /\ response' = [kind |-> "unban", user |-> u]
    /\ UNCHANGED <<committed, history, req, content, comments, comments_count,
                   allow_comments, tokens>>

NextAuth ==
    \/ \E u \in Users : Login(u)
    \/ \E u \in Users : LoginSubmit(u)
    \/ \E t \in Tokens : RefreshToken(t)
    \/ \E t \in Tokens : BearerRequest(t)
    \/ \E t \in Tokens : OptionalBearerRequest(t)
    \/ \E t \in Tokens : CookieRequest(t)
    \/ \E u \in Users : BanUser(u)
    \/ \E u \in Users : UnbanUser(u)

SpecAuth == Init /\ [][NextAuth]_vars

\* ======================================================== properties ===
VotesOf(c, v) == {r \in comment_votes : r.comment_id = c /\ r.vote = v}
RatingsOf(p) == {r \in post_ratings : r.post_id = p}

RECURSIVE SumOf(_, _)
SumOf(rows, field) ==
    IF rows = {} THEN 0
    ELSE LET r == CHOOSE x \in rows : TRUE
         IN  r[field] + SumOf(rows \ {r}, field)

\* C1: after any sequence of completed votes, likes_count is the number of +1 rows
\* of the comment and dislikes_count the number of -1 rows.
CountersMatchVoteRows ==
    \A c \in Comments :
        /\ likes_count[c] = Cardinality(VotesOf(c, 1))
        /\ dislikes_count[c] = Cardinality(VotesOf(c, -1))

\* A like and a dislike are both on record, cast by a signed-in and an anonymous voter.
CountersMatchVoteRowsWitness ==
    /\ likes_count[1] = 1
    /\ dislikes_count[1] = 1
    /\ \E a, b \in comment_votes : a.user_id # NoUser /\ b.user_id = NoUser

\* C2: after any sequence of completed ratings, votes_count is the number of rating
\* rows of the post and rating is their arithmetic mean.
RatingIsMean ==
    \A p \in Posts :
        /\ votes_count[p] = Cardinality(RatingsOf(p))
        /\ rating[p].num * votes_count[p] = SumOf(RatingsOf(p), "rating") * rating[p].den
        /\ votes_count[p] > 0 => rating[p] = Frac(SumOf(RatingsOf(p), "rating"), votes_count[p])

\* Two ratings with a mean that is no integer.
RatingIsMeanWitness ==
    /\ votes_count[1] = 2
    /\ rating[1].den = 2
    /\ \E a \in post_ratings : a.rating = MaxRating

\* C3: also under interleaved requests there is at most one vote row per comment
\* and voter identity and at most one rating row per post and voter identity.
OneRowPerVoter ==
    /\ \A a, b \in comment_votes :
           (a.comment_id = b.comment_id /\ RowIdentity(a) = RowIdentity(b)) => a = b
    /\ \A a, b \in post_ratings :
           (a.post_id = b.post_id /\ RowIdentity(a) = RowIdentity(b)) => a = b

\* C4: when all NumReqs requests were vote(+1) on the comment by voters that differ
\* in identity and in IP, none with a vote before, so that each inserted its +1 row,
\* the committed likes_count is NumReqs, the number of +1 rows.
NoLostLikes ==
    LET plus == VotesOf(1, 1)
    IN  (/\ \A r \in Reqs : req[r].pc = "done" /\ req[r].op = "vote"
         /\ Cardinality(plus) = NumReqs
         /\ \A a, b \in plus :
                a # b => RowIdentity(a) # RowIdentity(b) /\ a.ip_address # b.ip_address)
            => likes_count[1] = NumReqs

\* The flushed unit of work changes the row exactly when it changes the counters
\* (a view always inserts its row and adds one to views_count).
Paired(q) ==
    IF q.op = "view"
    THEN q.writes.row = "insert" /\ q.writes.cols[1] = q.snap[1] + 1
    ELSE (q.writes.row # "none") <=> (q.writes.cols # q.snap)

OnceEachCounted ==
    \A p \in Posts :
        once.ids # {} =>
            /\ votes_count[p] = Cardinality(once.ids)
            /\ rating[p] = Frac(once.sum, Cardinality(once.ids))

\* C7: a vote by signed-in user B leaves every row of another signed-in user A as
\* it was, whatever IP B votes from.
OtherUsersVoteUntouched ==
    [][\A c \in Comments, b \in Users, ip \in Ips, v \in VoteValues :
          Vote(c, b, ip, v) =>
              \A r \in comment_votes :
                  (r.user_id # NoUser /\ r.user_id # b) => r \in comment_votes']_vars

\* C8: while a single voter has voted on the comment, the counters are those of the
\* last value voted: (1,0) after +1, (0,1) after -1, (0,0) after 0.
SingleVoterLastVoteWins ==
    \A c \in Comments :
        sole.who \notin {Nobody, Many} =>
            <<likes_count[c], dislikes_count[c]>> =
                CASE sole.last = 1 -> <<1, 0>>
                  [] sole.last = -1 -> <<0, 1>>
                  [] OTHER -> <<0, 0>>

\* The single voter has voted more than once, last with -1, and holds one row.
SingleVoterLastVoteWinsWitness ==
    /\ sole.who \notin {Nobody, Many}
    /\ sole.calls = 2
    /\ sole.last = -1
    /\ Cardinality(comment_votes) = 1

SameRates(a, b) ==
    a.rows = b.rows /\ a.rating = b.rating /\ a.votes_count = b.votes_count

\* C9: a second rate_post by the same voter identity with the same rating leaves
\* rating, votes_count and the rating rows as the first call left them.
RepeatRatingIdempotent ==
    \A p \in Posts, uid \in Callers, ip1 \in Ips, ip2 \in Ips, r \in RatingValues :
        Identity(uid, ip1) = Identity(uid, ip2) =>
            LET s1 == RateEffect(post_ratings, rating[p], votes_count[p], p, uid, ip1, r)
                s2 == RateEffect(s1.rows, s1.rating, s1.votes_count, p, uid, ip2, r)
            IN  s1.result = "ok" => SameRates(s1, s2)

\* C10: in every reachable state, an anonymous rating from an IP that has a row
\* updates that row and leaves votes_count; a signed-in rating from another IP than
\* an anonymous row, by a user with no row of their own and an IP with no row, is
\* not matched to the anonymous row: a row is inserted and votes_count grows by one.
DocumentedGap ==
    \A p \in Posts, uid \in Callers, ip \in Ips, r \in RatingValues :
        LET e == RateEffect(post_ratings, rating[p], votes_count[p], p, uid, ip, r)
            atIp == {x \in RatingsOf(p) : x.ip_address = ip}
            own == {x \in RatingsOf(p) : uid # NoUser /\ x.user_id = uid}
            anon == {x \in RatingsOf(p) : x.user_id = NoUser /\ x.ip_address # ip}
        IN  /\ (uid = NoUser /\ atIp # {}) =>
                  /\ e.result = "ok"
                  /\ e.votes_count = votes_count[p]
                  /\ e.rows = (post_ratings \ atIp)
                                  \cup {[x EXCEPT !.rating = r] : x \in atIp}
            /\ (uid # NoUser /\ anon # {} /\ atIp = {} /\ own = {}) =>
                  /\ e.result = "ok"
                  /\ e.votes_count = votes_count[p] + 1
                  /\ e.rows = post_ratings
                                  \cup {NewRatingRow(post_ratings, p, uid, ip, r)}

\* An anonymous row and, inserted after it, the row of a signed-in user at another IP.
DocumentedGapWitness ==
    \E a, b \in post_ratings :
        /\ a.user_id = NoUser
        /\ b.user_id # NoUser
        /\ a.ip_address # b.ip_address
        /\ a.id < b.id
        /\ votes_count[1] = 2

\* C11: slugs are unique per entity type in every reachable state; posts created
\* from titles with the same base slug hold pairwise distinct slugs.
SlugsUnique ==
    /\ \A a, b \in posts : a.slug = b.slug => a = b
    /\ \A a, b \in categories : a.slug = b.slug => a = b

SlugsUniqueWitness ==
    \E a, b \in posts : /\ a # b
                        /\ Slugify(a.title) = Slugify(b.title)
                        /\ \E r \in Reqs : creating[r].pc = "done"

\* The suffixes below k of a base slug are all taken and k is not.
SmallestFree(taken, base_slug, k) ==
    /\ Suffixed(base_slug, k) \notin taken
    /\ \A j \in 1..(k - 1) : Suffixed(base_slug, j) \in taken

\* C12: a create gets the base slug when it is free, else base-k for the smallest
\* k >= 1 whose slug no row holds, also when deleted rows left gaps.
SlugIsFirstFree ==
    \A t \in Titles :
        LET taken == SlugsOf(posts)
            base_slug == Slugify(t)
            slug == AssignSlug(taken, base_slug)
        IN  IF base_slug \notin taken THEN slug = base_slug
            ELSE \E k \in 1..(Cardinality(taken) + 1) :
                     /\ SmallestFree(taken, base_slug, k)
                     /\ slug = Suffixed(base_slug, k)

\* A gap: base and base-2 are held, base-1 was deleted or renamed away.
SlugIsFirstFreeWitness ==
    \E t \in Titles :
        /\ Slugify(t) \in SlugsOf(posts)
        /\ Suffixed(Slugify(t), 1) \notin SlugsOf(posts)
        /\ Suffixed(Slugify(t), 2) \in SlugsOf(posts)

\* C13: a create that lost the race on the unique index scans again; it fails only
\* after more than one attempt.
RetryBeforeFailing ==
    \A r \in Reqs : creating[r].pc = "failed" => creating[r].attempts > 1

\* C14: no stored row holds an empty or suffix-only slug.
NoEmptySlug ==
    \A r \in posts \cup categories : r.slug # <<>> /\ Head(r.slug) # "-"

\* C15: an update whose title leads back to the slug the post holds leaves the slug
\* alone, and the same update applied again settles on the same slug.
UpdateKeepsOwnSlug ==
    \A row \in posts, t \in Titles :
        LET base_slug == Slugify(t)
            others == SlugsOf(posts \ {row})
            slug == UpdatedSlug(posts, row, t)
            new == [row EXCEPT !.title = t, !.slug = slug]
        IN  /\ (\/ row.slug = base_slug
                \/ /\ base_slug \in others
                   /\ \E k \in 1..Cardinality(posts) :
                          /\ SmallestFree(others, base_slug, k)
                          /\ row.slug = Suffixed(base_slug, k))
               => slug = row.slug
            /\ UpdatedSlug((posts \ {row}) \cup {new}, new, t) = slug

\* A post that holds base-1 next to the holder of base, after an update.
UpdateKeepsOwnSlugWitness ==
    \E a, b \in posts : /\ b.slug = Suffixed(a.slug, 1)
                        /\ Slugify(b.title) = a.slug
                        /\ b.id < a.id

RECURSIVE Ancestors(_, _)
\* The categories reached from c by following parent_id up to n times.
Ancestors(c, n) ==
    IF n = 0 \/ c \notin CategoryIds \/ CategoryRow(c).parent_id = NoParent THEN {}
    ELSE {CategoryRow(c).parent_id} \cup Ancestors(CategoryRow(c).parent_id, n - 1)

\* C16: the parent_id relation is acyclic: no category is its own ancestor.
ParentsAcyclic ==
    \A c \in CategoryIds : c \notin Ancestors(c, Cardinality(categories))

\* C19: the tree of active categories holds no inactive category, neither as a root
\* nor as a child.
TreeAllActive ==
    tree # <<>> =>
        \A i \in DOMAIN tree[2] :
            /\ tree[2][i].row.is_active
            /\ \A j \in DOMAIN tree[2][i].children : tree[2][i].children[j].is_active

IsOrdered(s) == \A i, j \in DOMAIN s : i < j => Before(s[i], s[j])

\* C20: the top level of the tree is exactly the root categories that pass the
\* active filter, and the top level and every children list are ordered by position,
\* then name.
TreeOrdered ==
    tree # <<>> =>
        /\ {tree[2][i].row : i \in DOMAIN tree[2]} =
               {r \in categories : r.parent_id = NoParent /\ r.is_active}
        /\ IsOrdered([i \in DOMAIN tree[2] |-> tree[2][i].row])
        /\ \A i \in DOMAIN tree[2] : IsOrdered(tree[2][i].children)

\* C17: posts_count of every category is the number of posts associated with it.
PostsCountTracksAssociation ==
    \A c \in categories :
        c.posts_count = Cardinality({x \in post_categories : x.category_id = c.id})

ViewsOf(p) == {r \in post_views : r.post_id = p}

\* C18: views_count of a post is the number of its PostView rows, and one more
\* view by any viewer, repeated or not, adds exactly 1 to the count and one row.
ViewsCounted ==
    \A p \in Posts :
        /\ views_count[p] = Cardinality(ViewsOf(p))
        /\ \A uid \in Callers, ip \in Ips :
               LET e == ViewEffect(post_views, views_count[p], p, uid, ip)
               IN  /\ e.views = views_count[p] + 1
                   /\ Cardinality(e.rows) = Cardinality(post_views) + 1

\* The same viewer has viewed the post twice.
ViewsCountedWitness ==
    \E a, b \in post_views : /\ a # b
                             /\ a.post_id = b.post_id
                             /\ a.user_id = b.user_id
                             /\ a.ip_address = b.ip_address
                             /\ views_count[a.post_id] >= 2

\* ---- comment listing ----
RanksAbove(a, b) ==
    IF a.is_pinned # b.is_pinned THEN a.is_pinned ELSE a.created_at > b.created_at

Least(a, b) == IF a < b THEN a ELSE b

\* C21: get_by_post returns only top-level comments of the post that pass the
\* approval filter, pinned first then newest first, at most per_page of them
\* starting at offset (page - 1) * per_page, and total is the number of all
\* top-level comments of the post that pass the filter.
ListingContract ==
    response.kind = "comments" =>
        LET matching == {r \in comments : /\ r.post_id = response.post_id
                                          /\ r.parent_id = NoParent
                                          /\ response.approved_only => r.is_approved}
            items == response.items
            listed == {items[i] : i \in DOMAIN items}
            offset == (response.page - 1) * response.per_page
            n == Cardinality(matching)
        IN  /\ listed \subseteq matching
            /\ \A i, j \in DOMAIN items : i < j =>
                   /\ items[i] # items[j]
                   /\ ~RanksAbove(items[j], items[i])
            /\ Len(items) = Least(response.per_page, IF n > offset THEN n - offset ELSE 0)
            /\ \E skipped \in SUBSET (matching \ listed) :
                   /\ Cardinality(skipped) = Least(offset, n)
                   /\ \A h \in skipped, x \in listed : ~RanksAbove(x, h)
                   /\ \A t \in (matching \ listed) \ skipped, x \in listed : ~RanksAbove(t, x)
            /\ response.total = n

\* A second page of one comment, after a pinned one, on a post that also has an
\* unapproved comment, which is not counted.
ListingContractWitness ==
    /\ response.kind = "comments"
    /\ response.approved_only
    /\ response.page = 2
    /\ response.total = 2
    /\ Len(response.items) = 1
    /\ \E r \in comments : r.post_id = response.post_id /\ r.parent_id = NoParent
                           /\ ~r.is_approved
    /\ \E r \in comments : r.post_id = response.post_id /\ r.parent_id = NoParent
                           /\ r.is_approved /\ r.is_pinned
    /\ ~response.items[1].is_pinned

\* ---- comment threads ----
\* C22: deleting a comment leaves none of its replies: a reply whose parent is
\* deleted is deleted with it, and so never survives as a top-level comment.
CascadeLeavesNoOrphans ==
    [][\A o \in comments :
           (o.parent_id \in CommentIds(comments) /\ o.parent_id \notin CommentIds(comments'))
               => o.id \notin CommentIds(comments')]_vars

\* C23: a new comment is pending (not approved, not pinned), and no comment is
\* pinned while unapproved.
CommentStateMachine ==
    [][/\ \A r \in comments' :
              r.id \notin CommentIds(comments) => ~r.is_approved /\ ~r.is_pinned
       /\ \A r \in comments' : r.is_pinned => r.is_approved]_vars

\* C26: comments_count of every post is the number of its comment rows.
CommentsCountMatchesRows ==
    \A p \in Articles : comments_count[p] = Cardinality({r \in comments : r.post_id = p})

\* C28: while allow_comments is false for a post, no request adds a comment to
\* the post or raises its comments_count.
NoCommentWhenDisabled ==
    [][\A p \in Articles :
           ~allow_comments[p] =>
               /\ \A r \in comments' : r.post_id = p => r.id \in CommentIds(comments)
               /\ comments_count'[p] <= comments_count[p]]_vars

\* C29: every reply refers to a stored comment of the same post.
RepliesHaveParentOnSamePost ==
    \A r \in comments :
        r.parent_id # NoParent =>
            \E q \in comments : q.id = r.parent_id /\ q.post_id = r.post_id

\* ---- rating validation ----
\* C24: a rating outside 1..5 is rejected with a validation error and writes
\* nothing: the PostRating rows, post.rating and post.votes_count stay as they
\* were, and no stored rating is outside 1..5.
InvalidRatingRejected ==
    /\ \A p \in Posts, uid \in Callers, ip \in Ips, r \in RatingInputs \ RatingValues :
           LET e == RateEndpointEffect(post_ratings, rating[p], votes_count[p],
                                       p, uid, ip, r)
           IN  /\ e.result = "invalid"
               /\ e.rows = post_ratings
               /\ e.rating = rating[p]
               /\ e.votes_count = votes_count[p]
    /\ \A row \in post_ratings : row.rating \in RatingValues

\* A rating outside the range was just answered 422, on a post that has ratings.
InvalidRatingRejectedWitness ==
    /\ response = [kind |-> "status", code |-> 422]
    /\ post_ratings # {}
    /\ votes_count[1] > 0

\* ---- lookups and counters ----
\* C25: the existing-row lookup of vote and of rate_post matches at most one row,
\* whoever calls from whatever IP.
LookupMatchesAtMostOne ==
    /\ \A c \in Comments, uid \in Callers, ip \in Ips :
           Cardinality(ExistingVotes(comment_votes, c, uid, ip)) <= 1
    /\ \A p \in Posts, uid \in Callers, ip \in Ips :
           Cardinality(ExistingRatings(post_ratings, p, uid, ip)) <= 1

\* C27: no engagement counter is negative.
CountersNonNegative ==
    /\ \A c \in Comments : likes_count[c] >= 0 /\ dislikes_count[c] >= 0
    /\ \A p \in Posts : votes_count[p] >= 0
    /\ \A p \in Articles : comments_count[p] >= 0
    /\ \A r \in categories : r.posts_count >= 0

\* ---- authentication ----
\* C30: a token issued to a user who is now banned authenticates nobody: required
\* bearer auth, optional bearer auth, token refresh and cookie auth all reject it
\* or treat the caller as anonymous.
BannedTokenRejected ==
    \A t \in tokens :
        is_banned[t.sub] =>
            /\ GetCurrentUser(tokens, is_banned, t) = NoUser
            /\ GetCurrentUserOptional(tokens, is_banned, t) = NoUser
            /\ RefreshedUser(tokens, is_banned, t) = NoUser
            /\ GetCurrentUserFromCookie(tokens, is_banned, t) = NoUser

=============================================================================
